---- MODULE Spec2Model ----
(***************************************************************************)
(* RP-Growth (kgerov/rp-growth): the RP-list scan, the RP-tree with its    *)
(* routes, the recurrence test and the recursive pattern growth, modelled  *)
(* from src/rp_growth.py and src/tree.py.                                  *)
(*                                                                         *)
(* Items are the integers 1..NItems, ordered as the item names are         *)
(* ("a" < "b" < ...).  A tree is an arena of nodes addressed by their      *)
(* position; 0 stands for Python's None in parent / neighbor / child       *)
(* references, node 1 is the root sentinel and item 0 is its item (None).  *)
(* Nodes that were unlinked from the tree stay in the arena, as the Python *)
(* objects stay alive while a route or a child reference still holds them. *)
(***************************************************************************)
EXTENDS Integers, Sequences, FiniteSets, TLC

\* ---------------------------------------------------------------- bounds
NItems == 2
MaxTs == 3
MaxPer == 1
MaxMinPs == 1
MaxMinRec == 1
ScenarioMaxPer == 2
ScenarioMaxMinPs == 2
ScenarioMaxMinRec == 2
TreeItems == 3
MaxTreeTxns == 3

Items == 1..NItems
None == 0
ROOT == 1

\* ------------------------------------------------------- sequence helpers
Range(s) == {s[i] : i \in 1..Len(s)}

Min(S) == CHOOSE x \in S : \A y \in S : x <= y

RECURSIVE SetToSeq(_)
\* iteration over a set of small integers, ascending
SetToSeq(S) == IF S = {} THEN <<>> ELSE <<Min(S)>> \o SetToSeq(S \ {Min(S)})

Reverse(s) == [i \in 1..Len(s) |-> s[Len(s) + 1 - i]]

sorted(s) == SortSeq(s, LAMBDA a, b : a < b)

\* Python dictionaries: d[k] = v and del d[k]
Put(d, k, v) == [i \in DOMAIN d \cup {k} |-> IF i = k THEN v ELSE d[i]]

Del(d, k) == [i \in DOMAIN d \ {k} |-> d[i]]

EmptyDict == [i \in {} |-> 0]

\* ------------------------------------------------------- tree.py: RPNode
RPNode(item) ==
    [item |-> item, parent |-> 0, children |-> EmptyDict,
     neighbor |-> 0, timestamps |-> <<>>]

\* RPTree.__init__
RPTree(rp_list) ==
    [nodes |-> <<RPNode(None)>>, rp_list |-> rp_list,
     routes |-> EmptyDict, exc |-> ""]

Raise(t, e) == [t EXCEPT !.exc = e]

root(t, n) == t.nodes[n].item = None

is_leaf(t, n) == DOMAIN t.nodes[n].children = {}

children(t, n) == {t.nodes[n].children[i] : i \in DOMAIN t.nodes[n].children}

get_child(t, n, item) ==
    IF item \in DOMAIN t.nodes[n].children THEN t.nodes[n].children[item] ELSE 0

add_timestamp(t, n, timestamp) ==
    [t EXCEPT !.nodes[n].timestamps = Append(@, timestamp)]

add_timestamps(t, n, timestamps) ==
    [t EXCEPT !.nodes[n].timestamps = @ \o timestamps]

\* RPNode.add: self = p, child = c
add(t, p, c) ==
    LET item == t.nodes[c].item IN
    IF item \notin DOMAIN t.nodes[p].children
    THEN [t EXCEPT !.nodes[p].children = Put(@, item, c), !.nodes[c].parent = p]
    ELSE LET new_ts == Range(t.nodes[c].timestamps) \ Range(t.nodes[p].timestamps)
         IN add_timestamps(t, t.nodes[p].children[item], SetToSeq(new_ts))

RECURSIVE AddAll(_, _, _)
\* for grandchild in child.children: parent.add(grandchild)
AddAll(t, parent, gcs) ==
    IF gcs = {} THEN t
    ELSE LET g == Min(gcs) IN AddAll(add(t, parent, g), parent, gcs \ {g})

\* RPNode.remove: self = p, child = c
remove(t, p, c) ==
    LET item == t.nodes[c].item IN
    IF item \notin DOMAIN t.nodes[p].children THEN Raise(t, "Exception")
    ELSE LET held == t.nodes[p].children[item]
             parent == t.nodes[held].parent
             t1 == IF is_leaf(t, c) THEN t
                   ELSE IF parent = 0 THEN Raise(t, "AttributeError")
                   ELSE AddAll(t, parent, children(t, c))
         IN IF t1.exc # "" THEN t1
            ELSE [t1 EXCEPT !.nodes[held].parent = 0,
                            !.nodes[p].children = Del(@, item)]

\* ------------------------------------------------------- tree.py: RPTree
\* RPTree._update_route
update_route(t, point) ==
    LET item == t.nodes[point].item IN
    IF item \in DOMAIN t.routes
    THEN LET route == t.routes[item] IN
         [t EXCEPT !.nodes[route[2]].neighbor = point,
                   !.routes[item] = <<route[1], point>>]
    ELSE [t EXCEPT !.routes = Put(@, item, <<point, point>>)]

RECURSIVE InsertWalk(_, _, _, _)
InsertWalk(t, current_node, items, timestamp) ==
    IF items = <<>> THEN add_timestamp(t, current_node, timestamp)
    ELSE LET item == Head(items)
             next_node == get_child(t, current_node, item)
         IN IF next_node = 0
            THEN LET fresh == Len(t.nodes) + 1
                     t1 == [t EXCEPT !.nodes = Append(@, RPNode(item))]
                     t2 == update_route(add(t1, current_node, fresh), fresh)
                 IN InsertWalk(t2, fresh, Tail(items), timestamp)
            ELSE InsertWalk(t, next_node, Tail(items), timestamp)

\* RPTree.insert_node
insert_node(t, items, timestamp) == InsertWalk(t, ROOT, items, timestamp)

RECURSIVE Chain(_, _)
Chain(t, n) == IF n = 0 THEN <<>> ELSE <<n>> \o Chain(t, t.nodes[n].neighbor)

\* RPTree.nodes: the nodes the generator yields, in order
nodes(t, item) == Chain(t, t.routes[item][1])

\* RPTree.node_count
node_count(t) == Cardinality(DOMAIN t.routes)

RECURSIVE RemoveWalk(_, _, _)
\* the loop of RPTree.remove_nodes over the route; st.dropped counts the
\* timestamps that were not moved up because the parent was the root
RemoveWalk(st, chain, k) ==
    IF k > Len(chain) \/ st.t.exc # "" THEN st
    ELSE LET t == st.t
             node == chain[k]
             parent == t.nodes[node].parent
         IN IF parent = 0
            THEN [st EXCEPT !.t = Raise(t, "AttributeError")]
            ELSE LET atRoot == root(t, parent)
                     t1 == IF ~atRoot
                           THEN add_timestamps(t, parent, t.nodes[node].timestamps)
                           ELSE t
                     t2 == remove(t1, parent, node)
                 IN RemoveWalk([t |-> t2,
                                dropped |-> st.dropped +
                                    (IF atRoot THEN Len(t.nodes[node].timestamps) ELSE 0)],
                               chain, k + 1)

RemoveRun(t, item) ==
    IF item \notin DOMAIN t.routes THEN [t |-> Raise(t, "KeyError"), dropped |-> 0]
    ELSE LET st == RemoveWalk([t |-> t, dropped |-> 0], nodes(t, item), 1)
         IN IF st.t.exc # "" THEN st
            ELSE [st EXCEPT !.t.routes = Del(@, item)]

\* RPTree.remove_nodes
remove_nodes(t, item) == RemoveRun(t, item).t

\* timestamps remove_nodes(item) drops at the root
DroppedAtRoot(t, item) == RemoveRun(t, item).dropped

RECURSIVE PathFrom(_, _)
\* walk_path: "while node and not node.root: path.append(node); node = node.parent"
PathFrom(t, n) ==
    IF n = 0 \/ root(t, n) THEN <<>> ELSE <<n>> \o PathFrom(t, t.nodes[n].parent)

RECURSIVE Accumulate(_, _, _, _, _)
\* walk_path: temp_transactions[node.item] (+)= current_ts along the path
Accumulate(t, temp, path, k, current_ts) ==
    IF k > Len(path) THEN temp
    ELSE LET item == t.nodes[path[k]].item
             temp1 == IF item \in DOMAIN temp
                      THEN [temp EXCEPT ![item] = @ \o current_ts]
                      ELSE Put(temp, item, current_ts)
         IN Accumulate(t, temp1, path, k + 1, current_ts)

RECURSIVE Graft(_, _, _, _)
\* walk_path: insert reversed(path[1:]) below the prefix tree's root; rest holds
\* the items still to insert; the result is the tree and the terminal node
Graft(pt, at, rest, k) ==
    IF k > Len(rest) THEN [t |-> pt, at |-> at]
    ELSE LET item == rest[k]
             new_node == get_child(pt, at, item)
         IN IF new_node = 0
            THEN LET fresh == Len(pt.nodes) + 1
                     p1 == [pt EXCEPT !.nodes = Append(@, RPNode(item))]
                     p2 == update_route(add(p1, at, fresh), fresh)
                 IN Graft(p2, fresh, rest, k + 1)
            ELSE Graft(pt, new_node, rest, k + 1)

\* RPTree.prefix_tree.walk_path; st = [temp, tree]
walk_path(t, node, st) ==
    LET current_ts == t.nodes[node].timestamps
        path == PathFrom(t, node)
        temp1 == Accumulate(t, st.temp, path, 1, current_ts)
        upper == Reverse([i \in 1..(Len(path) - 1) |-> t.nodes[path[i + 1]].item])
        g == Graft(st.tree, ROOT, upper, 1)
    IN [temp |-> temp1,
        tree |-> add_timestamps(g.t, g.at, t.nodes[path[1]].timestamps)]

RECURSIVE WalkAll(_, _, _, _)
WalkAll(t, chain, k, st) ==
    IF k > Len(chain) THEN st ELSE WalkAll(t, chain, k + 1, walk_path(t, chain[k], st))

\* RPTree.prefix_tree: [temp |-> temp_transactions, tree |-> prefix_tree]
prefix_tree(t, item) ==
    WalkAll(t, nodes(t, item), 1,
            [temp |-> EmptyDict, tree |-> RPTree(t.rp_list)])

\* ------------------------------------------------- rp_growth.py: helpers
RECURSIVE RecurrenceScan(_, _, _, _, _, _)
\* the loop and the final test of PatternFinder._get_recurrence: the length
\* sub_db has at the end; i = 1 is the iteration with last_occurence None
RecurrenceScan(timestamps, i, current_ps, n, p, mps) ==
    IF i > Len(timestamps) THEN (IF current_ps >= mps THEN n + 1 ELSE n)
    ELSE IF i = 1 THEN RecurrenceScan(timestamps, 2, 1, n, p, mps)
    ELSE IF timestamps[i] - timestamps[i - 1] <= p
         THEN RecurrenceScan(timestamps, i + 1, current_ps + 1, n, p, mps)
         ELSE RecurrenceScan(timestamps, i + 1, 1,
                             IF current_ps >= mps THEN n + 1 ELSE n, p, mps)

\* PatternFinder._get_recurrence
get_recurrence(timestamps, p, mps, mrec) ==
    RecurrenceScan(timestamps, 1, 1, 0, p, mps) >= mrec

\* class Item, as created on the first occurrence and stamped right after
Item(timestamp) ==
    [support |-> 1, max_recurrence |-> 0, periodic_support |-> 1,
     last_timestamp |-> timestamp]

\* one (timestamp, item) pair of the RP-list scan; st = [rp, exc]
ScanItem(st, timestamp, item, p, mps) ==
    IF st.exc # "" THEN st
    ELSE IF item \notin DOMAIN st.rp
    THEN [st EXCEPT !.rp = Put(@, item, Item(timestamp))]
    ELSE LET e == st.rp[item] IN
         IF timestamp - e.last_timestamp <= p
         THEN [st EXCEPT !.rp[item] =
                  [e EXCEPT !.support = @ + 1, !.periodic_support = @ + 1,
                            !.last_timestamp = timestamp]]
         ELSE IF mps = 0 THEN [st EXCEPT !.exc = "ZeroDivisionError"]
         ELSE [st EXCEPT !.rp[item] =
                  [e EXCEPT !.max_recurrence = @ + (e.periodic_support \div mps),
                            !.support = @ + 1, !.periodic_support = 1,
                            !.last_timestamp = timestamp]]

RECURSIVE ScanItems(_, _, _, _, _)
ScanItems(st, timestamp, items, p, mps) ==
    IF items = {} THEN st
    ELSE ScanItems(ScanItem(st, timestamp, Min(items), p, mps),
                   timestamp, items \ {Min(items)}, p, mps)

RECURSIVE ScanTdb(_, _, _, _, _)
\* the first loop of find_recurring_patterns
ScanTdb(st, db, k, p, mps) ==
    IF k > Len(db) THEN st
    ELSE ScanTdb(ScanItems(st, db[k].ts, db[k].items, p, mps), db, k + 1, p, mps)

\* the end-of-scan flush of one item
FlushItem(st, item, mps) ==
    IF st.exc # "" THEN st
    ELSE IF st.rp[item].periodic_support > 1
    THEN IF mps = 0 THEN [st EXCEPT !.exc = "ZeroDivisionError"]
         ELSE [st EXCEPT !.rp[item] =
                  [@ EXCEPT !.max_recurrence = @ + (st.rp[item].periodic_support \div mps),
                            !.periodic_support = 1]]
    ELSE st

RECURSIVE FlushAll(_, _, _)
FlushAll(st, items, mps) ==
    IF items = {} THEN st
    ELSE FlushAll(FlushItem(st, Min(items), mps), items \ {Min(items)}, mps)

\* the RP-list dictionary after the scan and the flush: [rp, exc]
BuildRpList(db, p, mps) ==
    LET scanned == ScanTdb([rp |-> EmptyDict, exc |-> ""], db, 1, p, mps)
    IN IF scanned.exc # "" THEN scanned
       ELSE FlushAll(scanned, DOMAIN scanned.rp, mps)

RECURSIVE SortBySupport(_, _)
\* sorted(final_rp_list, key=lambda x: (-support, x))
SortBySupport(rp, S) ==
    IF S = {} THEN <<>>
    ELSE LET first == CHOOSE x \in S : \A y \in S :
                         \/ rp[x].support > rp[y].support
                         \/ rp[x].support = rp[y].support /\ x <= y
         IN <<first>> \o SortBySupport(rp, S \ {first})

\* the filter on max_recurrence and the sort
FinalRpList(rp, mrec) ==
    SortBySupport(rp, {i \in DOMAIN rp : rp[i].max_recurrence >= mrec})

\* "for item in final_rp_list: if item in items: sorted_items.append(item)"
sorted_items(final, items) == SelectSeq(final, LAMBDA i : i \in items)

RECURSIVE FilterConditional(_, _, _, _, _, _)
\* the loop of _construct_conditional_from_prefix over reversed(rp_list)
FilterConditional(ct, timestamps, k, p, mps, mrec) ==
    LET order == Reverse(ct.rp_list) IN
    IF k > Len(order) \/ ct.exc # "" THEN ct
    ELSE LET item == order[k] IN
         IF item \notin DOMAIN ct.routes
         THEN FilterConditional(ct, timestamps, k + 1, p, mps, mrec)
         ELSE IF item \notin DOMAIN timestamps THEN Raise(ct, "KeyError")
         ELSE IF ~get_recurrence(sorted(timestamps[item]), p, mps, mrec)
         THEN FilterConditional(remove_nodes(ct, item), timestamps, k + 1, p, mps, mrec)
         ELSE FilterConditional(ct, timestamps, k + 1, p, mps, mrec)

\* PatternFinder._construct_conditional_from_prefix
construct_conditional_from_prefix(pt, timestamps, p, mps, mrec) ==
    FilterConditional(pt, timestamps, 1, p, mps, mrec)

\* a new pattern that forgets the prefix ("[curr_item]")
new_pattern_without_prefix(pattern, curr_item) == <<curr_item>>

\* a new pattern with the item put in front ("[curr_item] + pattern")
new_pattern_in_front(pattern, curr_item) == <<curr_item>> \o pattern

\* "new_pattern = pattern + [curr_item]"
new_pattern(pattern, curr_item) == Append(pattern, curr_item)

\* one iteration of the loop of _rp_growth up to the recursive call:
\* recurs = the recurrence test, emit = the whole condition of the if
GrowthStep(tree, pattern, curr_item, p, mps, mrec) ==
    LET pt == prefix_tree(tree, curr_item)
        recurs == get_recurrence(sorted(pt.temp[curr_item]), p, mps, mrec)
        emit == recurs /\ curr_item \notin Range(pattern)
        timestamps == Del(pt.temp, curr_item)
    IN [recurs |-> recurs,
        emit |-> emit,
        new_pattern |-> new_pattern(pattern, curr_item),
        conditional_tree |->
            IF emit THEN construct_conditional_from_prefix(pt.tree, timestamps, p, mps, mrec)
            ELSE pt.tree]

\* ------------------------------------------------------------ the machine
VARIABLES tdb, per, min_ps, min_rec, pc, rp_list, final_rp_list, inserted,
          stack, patterns, exc, blocked, prev, tree, removed, dropped, total

vars == <<tdb, per, min_ps, min_rec, pc, rp_list, final_rp_list, inserted,
          stack, patterns, exc, blocked, prev, tree, removed, dropped, total>>

mineVars == <<tdb, per, min_ps, min_rec, pc, rp_list, final_rp_list, inserted,
              stack, patterns, exc, blocked, prev>>

treeVars == <<tree, removed, dropped, total>>

NoRun == [ran |-> FALSE, patterns |-> <<>>]

Absent == {0}

\* a database: the present timestamps of 1..MaxTs in ascending order, each with
\* its item set
DbOf(f) ==
    LET present == SetToSeq({ts \in DOMAIN f : f[ts] # Absent})
    IN [k \in 1..Len(present) |-> [ts |-> present[k], items |-> f[present[k]]]]

\* a reference database over five items (a .. e are 1 .. 5)
Scenario ==
    << [ts |-> 1, items |-> {1, 3, 5}],
       [ts |-> 2, items |-> {1, 2, 3, 4, 5}],
       [ts |-> 3, items |-> {3, 4, 5}],
       [ts |-> 5, items |-> {1, 4, 5}],
       [ts |-> 6, items |-> {1, 2, 3, 4, 5}],
       [ts |-> 7, items |-> {2, 3}],
       [ts |-> 8, items |-> {2, 4, 5}],
       [ts |-> 9, items |-> {2, 3, 4, 5}] >>

SubDb(keep) ==
    LET idx == SetToSeq(keep) IN [k \in 1..Len(idx) |-> Scenario[idx[k]]]

\* the state of a PatternFinder before find_recurring_patterns is called
Fresh ==
    /\ pc = "entry"
    /\ rp_list = EmptyDict
    /\ final_rp_list = <<>>
    /\ inserted = 0
    /\ stack = <<>>
    /\ patterns = <<>>
    /\ exc = ""
    /\ blocked = FALSE
    /\ prev = NoRun

TreeIdle ==
    /\ tree = RPTree(<<>>)
    /\ removed = {}
    /\ dropped = 0
    /\ total = 0

\* PatternFinder.__init__ on every database over Items and 1..MaxTs
Init ==
    /\ \E f \in [1..MaxTs -> SUBSET Items \cup {Absent}] : tdb = DbOf(f)
    /\ per \in 1..MaxPer
    /\ min_ps \in 1..MaxMinPs
    /\ min_rec \in 1..MaxMinRec
    /\ Fresh
    /\ TreeIdle

\* PatternFinder.__init__ on every sub-database of Scenario, with parameters
\* that include the non-positive per and min_ps
InitScenario ==
    /\ \E keep \in SUBSET (1..Len(Scenario)) : tdb = SubDb(keep)
    /\ per \in 0..ScenarioMaxPer
    /\ min_ps \in 0..ScenarioMaxMinPs
    /\ min_rec \in 1..ScenarioMaxMinRec
    /\ Fresh
    /\ TreeIdle

Frame(t, pattern) == [tree |-> t, pattern |-> pattern, i |-> 1, cur |-> 0]

\* find_recurring_patterns, lines 15-62: the scan, the flush, the filter, the
\* sort and the construction of the empty tree
ScanDatabase ==
    /\ pc = "entry"
    /\ LET st == BuildRpList(tdb, per, min_ps) IN
       IF st.exc # ""
       THEN /\ pc' = "raised"
            /\ exc' = st.exc
            /\ rp_list' = st.rp
            /\ UNCHANGED <<final_rp_list, stack>>
       ELSE /\ pc' = IF Len(tdb) = 0 THEN "mine" ELSE "insert"
            /\ rp_list' = st.rp
            /\ final_rp_list' = FinalRpList(st.rp, min_rec)
            /\ stack' = <<Frame(RPTree(FinalRpList(st.rp, min_rec)), <<>>)>>
            /\ exc' = exc
    /\ UNCHANGED <<tdb, per, min_ps, min_rec, inserted, patterns, blocked, prev>>
    /\ UNCHANGED treeVars

\* find_recurring_patterns, lines 64-73: one transaction into the tree
InsertTransaction ==
    /\ pc = "insert"
    /\ inserted < Len(tdb)
    /\ LET txn == tdb[inserted + 1] IN
       stack' = [stack EXCEPT ![1].tree =
                    insert_node(@, sorted_items(final_rp_list, txn.items), txn.ts)]
    /\ inserted' = inserted + 1
    /\ pc' = IF inserted + 1 = Len(tdb) THEN "mine" ELSE "insert"
    /\ UNCHANGED <<tdb, per, min_ps, min_rec, rp_list, final_rp_list, patterns,
                   exc, blocked, prev>>
    /\ UNCHANGED treeVars

\* RPTree.items_ordered, resumed in frame f: the position in reversed(rp_list)
\* of the next item that is in the routes, 0 when the generator is exhausted
NextIndex(f) ==
    LET order == Reverse(f.tree.rp_list)
        S == {j \in f.i..Len(order) : order[j] \in DOMAIN f.tree.routes}
    IN IF S = {} THEN 0 ELSE Min(S)

Top == stack[Len(stack)]

\* _rp_growth, lines 87-112: one item of the tree of the innermost call, up to
\* the recursive call (line 108) or, without one, through remove_nodes
Visit ==
    /\ pc = "mine"
    /\ Top.cur = 0
    /\ NextIndex(Top) # 0
    /\ LET d == Len(stack)
           j == NextIndex(Top)
           curr_item == Reverse(Top.tree.rp_list)[j]
           step == GrowthStep(Top.tree, Top.pattern, curr_item, per, min_ps, min_rec)
           recurse == step.emit /\ node_count(step.conditional_tree) > 0
           after == remove_nodes(Top.tree, curr_item)
       IN /\ patterns' = IF step.emit THEN Append(patterns, step.new_pattern) ELSE patterns
          /\ blocked' = (blocked \/ (step.recurs /\ ~step.emit))
          /\ IF step.conditional_tree.exc # ""
             THEN /\ pc' = "raised"
                  /\ exc' = step.conditional_tree.exc
                  /\ stack' = stack
             ELSE IF recurse
             THEN /\ stack' = Append([stack EXCEPT ![d].i = j, ![d].cur = curr_item],
                                     Frame(step.conditional_tree, step.new_pattern))
                  /\ UNCHANGED <<pc, exc>>
             ELSE IF after.exc # ""
             THEN /\ pc' = "raised"
                  /\ exc' = after.exc
                  /\ stack' = stack
             ELSE /\ stack' = [stack EXCEPT ![d].tree = after, ![d].i = j + 1]
                  /\ UNCHANGED <<pc, exc>>
    /\ UNCHANGED <<tdb, per, min_ps, min_rec, rp_list, final_rp_list, inserted, prev>>
    /\ UNCHANGED treeVars

\* _rp_growth, lines 108-112: the recursive call is exhausted; the caller
\* removes the item it was working on
Resume ==
    /\ pc = "mine"
    /\ Len(stack) > 1
    /\ Top.cur = 0
    /\ NextIndex(Top) = 0
    /\ LET d == Len(stack) - 1
           after == remove_nodes(stack[d].tree, stack[d].cur)
       IN IF after.exc # ""
          THEN /\ pc' = "raised"
               /\ exc' = after.exc
               /\ stack' = stack
          ELSE /\ stack' = [SubSeq(stack, 1, d) EXCEPT
                              ![d].tree = after, ![d].i = @ + 1, ![d].cur = 0]
               /\ UNCHANGED <<pc, exc>>
    /\ UNCHANGED <<tdb, per, min_ps, min_rec, rp_list, final_rp_list, inserted,
                   patterns, blocked, prev>>
    /\ UNCHANGED treeVars

\* find_recurring_patterns, lines 78-81: the generator is exhausted
Return ==
    /\ pc = "mine"
    /\ Len(stack) = 1
    /\ Top.cur = 0
    /\ NextIndex(Top) = 0
    /\ pc' = "returned"
    /\ UNCHANGED <<tdb, per, min_ps, min_rec, rp_list, final_rp_list, inserted,
                   stack, patterns, exc, blocked, prev>>
    /\ UNCHANGED treeVars

\* a second PatternFinder on the same database, per and min_ps with min_rec
\* relaxed by one; prev keeps what the stricter run returned
Relax ==
    /\ pc = "returned"
    /\ min_rec > 1
    /\ min_rec' = min_rec - 1
    /\ prev' = [ran |-> TRUE, patterns |-> patterns]
    /\ pc' = "entry"
    /\ rp_list' = EmptyDict
    /\ final_rp_list' = <<>>
    /\ inserted' = 0
    /\ stack' = <<>>
    /\ patterns' = <<>>
    /\ blocked' = FALSE
    /\ UNCHANGED <<tdb, per, min_ps, exc>>
    /\ UNCHANGED treeVars

\* one run of find_recurring_patterns
Next == ScanDatabase \/ InsertTransaction \/ Visit \/ Resume \/ Return

Spec == Init /\ [][Next]_vars

\* runs of find_recurring_patterns with min_rec relaxed from one to the next
NextRelax ==
    ScanDatabase \/ InsertTransaction \/ Visit \/ Resume \/ Return \/ Relax

SpecScenario == InitScenario /\ [][NextRelax]_vars

\* ------------------------------------------- the tree under free removals
\* RPTree(rp_list) for the list 1, 2, .., TreeItems, filled by insert_node and
\* then emptied by remove_nodes on distinct items in any order
InitTree ==
    /\ tdb = <<>>
    /\ per = 1
    /\ min_ps = 1
    /\ min_rec = 1
    /\ Fresh
    /\ tree = RPTree([i \in 1..TreeItems |-> i])
    /\ removed = {}
    /\ dropped = 0
    /\ total = 0

\* RPTree.insert_node with items in RP-list order and a new timestamp
TreeInsert ==
    /\ removed = {}
    /\ total < MaxTreeTxns
    /\ \E items \in SUBSET (1..TreeItems) :
          tree' = insert_node(tree, sorted_items(tree.rp_list, items), total + 1)
    /\ total' = total + 1
    /\ UNCHANGED <<removed, dropped>>
    /\ UNCHANGED mineVars

\* RPTree.remove_nodes on an item that was not removed before
TreeRemove ==
    /\ tree.exc = ""
    /\ \E item \in DOMAIN tree.routes \ removed :
          /\ tree' = remove_nodes(tree, item)
          /\ dropped' = dropped + DroppedAtRoot(tree, item)
          /\ removed' = removed \cup {item}
    /\ UNCHANGED total
    /\ UNCHANGED mineVars

NextTree == TreeInsert \/ TreeRemove

SpecTree == InitTree /\ [][NextTree]_vars

\* --------------------------------------------------------------- notions
RECURSIVE Reach(_, _, _)
Reach(t, frontier, seen) ==
    IF frontier = {} THEN seen
    ELSE LET n == Min(frontier)
             new == children(t, n) \ seen
         IN Reach(t, (frontier \ {n}) \cup new, seen \cup new)

\* the nodes reachable from the root through child links
Reachable(t) == Reach(t, {ROOT}, {ROOT})

RECURSIVE HeldBy(_, _)
\* the number of timestamps the nodes of S hold
HeldBy(t, S) ==
    IF S = {} THEN 0
    ELSE Len(t.nodes[Min(S)].timestamps) + HeldBy(t, S \ {Min(S)})

\* every tree a running find_recurring_patterns holds
LiveTrees == {stack[k].tree : k \in 1..Len(stack)}

\* the ascending timestamps of the transactions that contain every item of S
RawTimestamps(S) ==
    LET hit == SelectSeq(tdb, LAMBDA txn : S \subseteq txn.items)
    IN [k \in 1..Len(hit) |-> hit[k].ts]

\* the number of maximal runs of ts with gaps <= p and length >= mps
QualifyingRuns(ts, p, mps) ==
    LET starts == {i \in 1..Len(ts) : i = 1 \/ ts[i] - ts[i - 1] > p}
        last(i) == Min({j \in i..Len(ts) : j = Len(ts) \/ ts[j + 1] - ts[j] > p})
    IN Cardinality({i \in starts : last(i) - i + 1 >= mps})

Qualifies(S) == QualifyingRuns(RawTimestamps(S), per, min_ps) >= min_rec

ItemsOfTdb == UNION {tdb[k].items : k \in 1..Len(tdb)}

PatternSets(ps) == {Range(ps[k]) : k \in 1..Len(ps)}

ValidParameters == per >= 1 /\ min_ps >= 1 /\ min_rec >= 1

\* the 1-based position of an item in the final RP-list
Position(item) == Min({k \in 1..Len(final_rp_list) : final_rp_list[k] = item})

\* ----------------------------------------------------------------- claims
\* C1: every pattern find_recurring_patterns returns qualifies when it is
\* re-derived from the raw database: the timestamps of the transactions that
\* contain all its items have at least min_rec maximal runs of gap <= per and
\* length >= min_ps (for per, min_ps, min_rec >= 1).
C1_EmittedPatternsQualify ==
    ValidParameters =>
        \A k \in 1..Len(patterns) : Qualifies(Range(patterns[k]))

\* C2: the mining is exact: on return, every non-empty item set that qualifies
\* on the raw database is among the returned patterns (for per, min_ps,
\* min_rec >= 1).
C2_EveryQualifyingSetReturned ==
    (ValidParameters /\ pc = "returned") =>
        \A S \in SUBSET ItemsOfTdb \ {{}} :
            Qualifies(S) => S \in PatternSets(patterns)

\* C3: after the scan and the flush, the max_recurrence of every item is at
\* least the number of qualifying intervals _get_recurrence counts over the
\* item's full timestamp sequence (for per, min_ps >= 1).
C3_EstimateIsUpperBound ==
    (ValidParameters /\ pc \in {"insert", "mine", "returned"}) =>
        \A item \in DOMAIN rp_list :
            rp_list[item].max_recurrence >=
                RecurrenceScan(RawTimestamps({item}), 1, 1, 0, per, min_ps)

\* C4: with per <= 0 or min_ps <= 0 the run is rejected by a validation error
\* at entry: it is either not started yet or has raised that error before
\* anything was scanned; it never scans, builds, mines, returns or fails later.
C4_RejectedAtEntry ==
    (per <= 0 \/ min_ps <= 0) =>
        \/ pc = "entry"
        \/ pc = "raised" /\ exc = "ValueError" /\ rp_list = EmptyDict /\ stack = <<>>

\* C5: after any sequence of remove_nodes calls on distinct items, the
\* timestamps held by the nodes reachable from the root plus the timestamps
\* dropped because the removed node's parent was the root are as many as the
\* tree held before the removals.
C5_TimestampsConserved ==
    tree.exc = "" => HeldBy(tree, Reachable(tree)) + dropped = total

\* C6: on the same database, per and min_ps, the patterns returned with
\* min_rec = k are, as item sets, a superset of those returned with k + 1.
C6_RelaxingIsMonotone ==
    (prev.ran /\ pc = "returned") =>
        PatternSets(prev.patterns) \subseteq PatternSets(patterns)

\* C7: no two patterns of one run contain the same set of items.
C7_NoDuplicatePatterns ==
    \A i, j \in 1..Len(patterns) :
        i # j => Range(patterns[i]) # Range(patterns[j])

C7_Witness ==
    /\ pc = "returned"
    /\ Len(patterns) >= 3
    /\ \E k \in 1..Len(patterns) : Len(patterns[k]) = 2

\* C8: in every tree, the route of each registered item visits, each exactly
\* once, precisely the nodes labelled with that item that are reachable from
\* the root.
RouteExact(t, item) ==
    LET chain == nodes(t, item) IN
    /\ \A i, j \in 1..Len(chain) : i # j => chain[i] # chain[j]
    /\ Range(chain) = {n \in Reachable(t) : t.nodes[n].item = item}

C8_RoutesVisitReachableNodes ==
    \A t \in LiveTrees : \A item \in DOMAIN t.routes : RouteExact(t, item)

\* C9: the root sentinel of the main tree and of every conditional tree has
\* item None and no timestamps.
C9_RootHoldsNothing ==
    \A t \in LiveTrees :
        t.nodes[ROOT].item = None /\ t.nodes[ROOT].timestamps = <<>>

\* C10: every emitted pattern lists its items in strictly decreasing RP-list
\* position, so no item occurs twice; the "curr_item not in pattern" guard is
\* never False for an item that passed the recurrence test; and the recursion
\* is never deeper than the RP-list is long.
C10_PatternsDescendTheRpList ==
    /\ \A k \in 1..Len(patterns) :
          /\ Range(patterns[k]) \subseteq Range(final_rp_list)
          /\ \A i \in 1..(Len(patterns[k]) - 1) :
                Position(patterns[k][i + 1]) < Position(patterns[k][i])
    /\ ~blocked
    /\ Len(stack) > 1 => Len(stack) <= Len(final_rp_list)

C10_Witness ==
    /\ pc = "mine"
    /\ Len(stack) = 2
    /\ Len(final_rp_list) = 2
    /\ \E k \in 1..Len(patterns) : Len(patterns[k]) = 2

====
